---- MODULE Spec2Model ----
(***************************************************************************)
(* A model of script.js: the modal dialog with its focus trap, the contact *)
(* form's validation, and the sortable table.  The page's markup is not    *)
(* part of the script, so the content of the dialog and the values typed   *)
(* into the form are drawn from bounded sets.                              *)
(***************************************************************************)
EXTENDS Integers, Sequences, FiniteSets, TLC

VARIABLES
    els,            \* the elements inside #modal-dialog, in document order
    ariaHidden,     \* aria-hidden of #modal-overlay
    isOpen,         \* #modal-overlay carries the class is-open
    inert,          \* the landmark regions that carry the inert attribute
    activeElement,  \* document.activeElement ("browserUI": focus left the page)
    listeners,      \* the keydown listeners registered on document
    last,           \* the event handled last: what it was and what it did
    tabRun,         \* consecutive Tab presses counted since tabStart had focus
    tabStart,       \* the element focused when the run of Tab presses began
    value,          \* the value of each field of #contact-form
    ariaInvalid,    \* the fields that carry aria-invalid="true"
    errorText,      \* the textContent of each field's error container
    formStatus,     \* #form-status: its className and textContent
    lastForm,       \* the form event handled last, and the values before it
    rows,           \* the rows of #courses-tbody, in document order
    sortState,      \* sortState of initSortableTable: col and dir
    ariaSort,       \* aria-sort of each column header ("absent": no attribute)
    announcer,      \* the textContent of #table-announce
    timers,         \* the callbacks of setTimeout still to run, oldest first
    lastTable,      \* the table event handled last, and the table before it
    compared,       \* three cell texts and what the comparator returned for them
    absent,         \* the elements the script looks up that the page lacks
    lastRun         \* the handler run last: what it did, whether it raised

modalVars == <<els, ariaHidden, isOpen, inert, activeElement, listeners, last>>
runVars == <<tabRun, tabStart>>
formVars == <<value, ariaInvalid, errorText, formStatus, lastForm>>
tableVars == <<rows, sortState, ariaSort, announcer, timers, lastTable, compared>>
absentVars == <<absent, lastRun>>
vars == <<modalVars, runVars, formVars, tableVars, absentVars>>

-----------------------------------------------------------------------------
(* Bounds *)

\* The most elements the dialog holds.
MaxEls == 3

\* The longest name, email address and message typed into the form.
MaxNameLen == 2
MaxEmailLen == 5
MaxMessageLen == 11

\* The most rows the table holds, and the most delayed callbacks pending at
\* one time.
MaxRows == 3
MaxPending == 3

\* The most elements the page lacks.
MaxAbsent == 1

-----------------------------------------------------------------------------
(* The elements of the dialog and the selector of getFocusableElements *)

FormControls == {"button", "input", "select", "textarea"}

El(tag, disabled, tabindex, hidden) ==
    [tag |-> tag, href |-> (tag = "a"), disabled |-> disabled,
     tabindex |-> tabindex, hidden |-> hidden]

\* The kinds of element the dialog is built from: one for each way the
\* selector list and the filter tell elements apart (hidden: the element
\* lies inside [hidden]).
ElementKinds ==
    { El("button", FALSE, "none", FALSE),   \* <button>
      El("button", TRUE,  "none", FALSE),   \* <button disabled>
      El("button", TRUE,  "0",    FALSE),   \* <button disabled tabindex="0">
      El("a",      FALSE, "none", FALSE),   \* <a href>
      El("div",    FALSE, "0",    FALSE),   \* <div tabindex="0">
      El("div",    FALSE, "-1",   FALSE),   \* <div tabindex="-1">
      El("button", FALSE, "none", TRUE) }   \* <button> inside [hidden]

\* The selector list: a[href], button/input/select/textarea:not([disabled]),
\* [tabindex]:not([tabindex="-1"]).
MatchesSelector(e) ==
    \/ e.tag = "a" /\ e.href
    \/ e.tag \in FormControls /\ ~e.disabled
    \/ e.tabindex # "none" /\ e.tabindex # "-1"

ChildName == <<"e1", "e2", "e3", "e4", "e5", "e6">>

ChildIndex(x) == CHOOSE i \in 1..Len(ChildName) : ChildName[i] = x

Children == {ChildName[i] : i \in 1..Len(els)}

\* The filter of getFocusableElements on child i: matched by the selector,
\* not inside [hidden], not inside [aria-hidden="true"]; closest() also sees
\* the overlay, which is the dialog's ancestor.
InCycle(s, i) ==
    /\ MatchesSelector(els[i])
    /\ ~els[i].hidden
    /\ s.ariaHidden # "true"

RECURSIVE FocusableUpTo(_, _)
\* The children among the first n that getFocusableElements keeps, in
\* document order (querySelectorAll returns document order).
FocusableUpTo(s, n) ==
    IF n = 0 THEN <<>>
    ELSE IF InCycle(s, n) THEN Append(FocusableUpTo(s, n - 1), ChildName[n])
         ELSE FocusableUpTo(s, n - 1)

getFocusableElements(s) == FocusableUpTo(s, Len(els))

-----------------------------------------------------------------------------
(* The browser: which elements take focus, and sequential navigation *)

Landmarks == {"header", "main", "footer"}

\* The landmark a background element lies in.
RegionOf(x) ==
    CASE x = "headerLink" -> "header"
      [] x = "openBtn"    -> "main"
      [] x = "footerLink" -> "footer"

Background == {"headerLink", "openBtn", "footerLink"}

\* The document in tree order: the overlay (with the dialog in it) is a
\* sibling of the landmarks.
DocOrder ==
    <<"headerLink", "openBtn", "dialog">>
        \o [i \in 1..Len(els) |-> ChildName[i]] \o <<"footerLink">>

\* A child that can take focus when it is rendered: a link, an enabled
\* control or an element with a tabindex, outside [hidden]; a disabled
\* control never takes focus, whatever its tabindex.
ChildFocusable(e) ==
    /\ ~e.hidden
    /\ ~(e.tag \in FormControls /\ e.disabled)
    /\ \/ e.tag = "a" /\ e.href
       \/ e.tag \in FormControls
       \/ e.tabindex # "none"

\* Whether x can take focus in state s: background elements unless their
\* landmark is inert, the dialog (tabindex="-1") and its content only while
\* the overlay carries the visual open class.
CanFocus(s, x) ==
    CASE x \in Background -> ~s.inert[RegionOf(x)]
      [] x = "dialog"     -> s.isOpen
      [] x \in Children   -> s.isOpen /\ ChildFocusable(els[ChildIndex(x)])
      [] OTHER            -> FALSE

\* Whether x is a stop of sequential (Tab) navigation.
Tabbable(s, x) ==
    /\ CanFocus(s, x)
    /\ x # "dialog"
    /\ x \in Children => els[ChildIndex(x)].tabindex # "-1"

\* el.focus(): moves focus when el can take it, and does nothing otherwise.
Focus(s, x) == IF CanFocus(s, x) THEN [s EXCEPT !.focus = x] ELSE s

\* The focus fix-up the browser runs after a task: an element that can no
\* longer take focus (it became inert, or is no longer rendered) loses it.
Fixup(s) ==
    IF s.focus \in {"body", "browserUI"} \/ CanFocus(s, s.focus) THEN s
    ELSE [s EXCEPT !.focus = "body"]

PosOf(x) == CHOOSE i \in 1..Len(DocOrder) : DocOrder[i] = x

SetMin(S) == CHOOSE m \in S : \A n \in S : m <= n
SetMax(S) == CHOOSE m \in S : \A n \in S : m >= n

\* The default action of Tab (forward) or Shift+Tab: focus moves to the next
\* stop in document order; past the last (first) stop it leaves the page for
\* the browser's own controls, and from there it enters the page again.
SeqNav(s, forward) ==
    LET stops == {i \in 1..Len(DocOrder) : Tabbable(s, DocOrder[i])}
        from  == IF s.focus \in {"body", "browserUI"}
                 THEN (IF forward THEN 0 ELSE Len(DocOrder) + 1)
                 ELSE PosOf(s.focus)
        cand  == IF forward THEN {i \in stops : i > from}
                 ELSE {i \in stops : i < from}
    IN  IF cand = {} THEN "browserUI"
        ELSE DocOrder[IF forward THEN SetMin(cand) ELSE SetMax(cand)]

-----------------------------------------------------------------------------
(* MODULE 1: the modal.  The handlers act on a record s of the page's state: *)
(* ariaHidden, isOpen, inert, focus, listeners, and what the event being     *)
(* handled did so far (prevented: preventDefault was called; closes: the     *)
(* calls of closeModal).                                                     *)

\* A variant of addEventListener that adds the listener once more on every
\* call, as a listener created anew by each open would be.
addEventListener_Again(ls, h) == Append(ls, h)

\* document.addEventListener('keydown', handleModalKeydown): a listener that
\* is already in the list is not added again.
addEventListener(ls, h) ==
    IF \E i \in 1..Len(ls) : ls[i] = h THEN ls ELSE Append(ls, h)

\* document.removeEventListener('keydown', handleModalKeydown).
removeEventListener(ls, h) == SelectSeq(ls, LAMBDA x : x # h)

\* setAttribute('inert', '') / removeAttribute('inert') on header, main and
\* footer.
SetInert(s, on) == [s EXCEPT !.inert = [r \in Landmarks |-> on]]

openModal(s) ==
    LET s1 == [s EXCEPT !.ariaHidden = "false", !.isOpen = TRUE]
        s2 == SetInert(s1, TRUE)
        focusableEls == getFocusableElements(s2)
        s3 == IF Len(focusableEls) > 0 THEN Focus(s2, focusableEls[1])
              ELSE Focus(s2, "dialog")
    IN  [s3 EXCEPT !.listeners = addEventListener(@, "handleModalKeydown")]

\* A variant of closeModal that returns focus before it removes inert, while
\* the open button still cannot take it.
closeModal_FocusFirst(s) ==
    LET s1 == [s EXCEPT !.ariaHidden = "true", !.isOpen = FALSE]
        s2 == Focus(s1, "openBtn")
        s3 == SetInert(s2, FALSE)
    IN  [s3 EXCEPT !.listeners = removeEventListener(@, "handleModalKeydown"),
                   !.closes = @ + 1]

\* A variant of closeModal that leaves the keydown listener registered.
closeModal_NoUnbind(s) ==
    LET s1 == [s EXCEPT !.ariaHidden = "true", !.isOpen = FALSE]
        s2 == SetInert(s1, FALSE)
        s3 == Focus(s2, "openBtn")
    IN  [s3 EXCEPT !.closes = @ + 1]

closeModal(s) ==
    LET s1 == [s EXCEPT !.ariaHidden = "true", !.isOpen = FALSE]
        s2 == SetInert(s1, FALSE)
        s3 == Focus(s2, "openBtn")
    IN  [s3 EXCEPT !.listeners = removeEventListener(@, "handleModalKeydown"),
                   !.closes = @ + 1]

\* A variant of handleModalKeydown without the branch for the empty cycle:
\* firstFocusable and lastFocusable are undefined, nothing is suppressed.
handleModalKeydown_EmptyNotSuppressed(s, event) ==
    LET focusableEls   == getFocusableElements(s)
        firstFocusable == focusableEls[1]
        lastFocusable  == focusableEls[Len(focusableEls)]
    IN  IF event.key = "Escape" THEN closeModal(s)
        ELSE IF event.key # "Tab" THEN s
        ELSE IF Len(focusableEls) = 0 THEN s
        ELSE IF event.shiftKey
             THEN IF s.focus = firstFocusable
                  THEN Focus([s EXCEPT !.prevented = TRUE], lastFocusable)
                  ELSE s
             ELSE IF s.focus = lastFocusable
                  THEN Focus([s EXCEPT !.prevented = TRUE], firstFocusable)
                  ELSE s

\* handleModalKeydown(event), event = [key, shiftKey].
handleModalKeydown(s, event) ==
    LET focusableEls   == getFocusableElements(s)
        firstFocusable == focusableEls[1]
        lastFocusable  == focusableEls[Len(focusableEls)]
    IN  IF event.key = "Escape" THEN closeModal(s)
        ELSE IF event.key # "Tab" THEN s
        ELSE IF Len(focusableEls) = 0 THEN [s EXCEPT !.prevented = TRUE]
        ELSE IF event.shiftKey
             THEN IF s.focus = firstFocusable
                  THEN Focus([s EXCEPT !.prevented = TRUE], lastFocusable)
                  ELSE s
             ELSE IF s.focus = lastFocusable
                  THEN Focus([s EXCEPT !.prevented = TRUE], firstFocusable)
                  ELSE s

RECURSIVE Dispatch(_, _, _)
\* A keydown event reaches every listener that was registered when it was
\* dispatched, in order.
Dispatch(s, event, n) ==
    IF n = 0 THEN s ELSE Dispatch(handleModalKeydown(s, event), event, n - 1)

\* The page's state as a record, with the event's own fields reset.
Page ==
    [ariaHidden |-> ariaHidden, isOpen |-> isOpen, inert |-> inert,
     focus |-> activeElement, listeners |-> listeners,
     prevented |-> FALSE, closes |-> 0]

Keys == {"Escape", "Tab", "Enter"}

EventName(event) ==
    IF event.key = "Tab" /\ event.shiftKey THEN "ShiftTab" ELSE event.key

\* What the page becomes after an event took it from Page to s.
Commit(s, name, target) ==
    LET f == Fixup(s)
    IN  /\ ariaHidden' = f.ariaHidden
        /\ isOpen' = f.isOpen
        /\ inert' = f.inert
        /\ activeElement' = f.focus
        /\ listeners' = f.listeners
        /\ last' = [ev |-> name, target |-> target, from |-> activeElement,
                    wasOpen |-> isOpen, registered |-> Len(listeners),
                    cycle |-> getFocusableElements(Page),
                    prevented |-> s.prevented, closes |-> s.closes]
        /\ UNCHANGED <<els, formVars, tableVars, absentVars>>

\* The run of Tab presses: a forward Tab adds one to the count, any other
\* event starts a new run at the element that has focus after it.
TrackRun(track, isTab) ==
    IF ~track THEN UNCHANGED runVars
    ELSE IF isTab
         THEN /\ tabRun' = IF tabRun > MaxEls THEN tabRun ELSE tabRun + 1
              /\ UNCHANGED tabStart
         ELSE /\ tabRun' = 0
              /\ tabStart' = activeElement'

\* A click on #open-modal-btn: the button takes focus, then openModal runs.
OpenBtnClick(track) ==
    /\ Commit(openModal(Focus(Page, "openBtn")), "openBtnClick", "openBtn")
    /\ TrackRun(track, FALSE)

\* A click on #close-modal-btn, wherever the markup puts that button: what
\* the click does is what its listener does.
CloseBtnClick(track) ==
    /\ Commit(closeModal(Page), "closeBtnClick", "closeBtn")
    /\ TrackRun(track, FALSE)

\* A variant of the overlay's click listener that closes the dialog whatever
\* the target.
OverlayClick_AnyTarget(track) ==
    /\ isOpen
    /\ \E target \in {"overlay", "dialog"} \cup {x \in Children : CanFocus(Page, x)} :
         LET s0 == IF target = "overlay" THEN [Page EXCEPT !.focus = "body"]
                   ELSE Focus(Page, target)
         IN  Commit(closeModal(s0), "overlayClick", target)
    /\ TrackRun(track, FALSE)

\* A click inside the overlay while it is shown, on the backdrop itself, on
\* the dialog panel or on a child that takes focus: the target (or its
\* nearest ancestor that takes focus) is focused, then the overlay's click
\* listener runs.
OverlayClick(track) ==
    /\ isOpen
    /\ \E target \in {"overlay", "dialog"} \cup {x \in Children : CanFocus(Page, x)} :
         LET s0 == IF target = "overlay" THEN [Page EXCEPT !.focus = "body"]
                   ELSE Focus(Page, target)
             s1 == IF target = "overlay" THEN closeModal(s0) ELSE s0
         IN  Commit(s1, "overlayClick", target)
    /\ TrackRun(track, FALSE)

\* A key pressed while focus is in the page: the listeners run, then the
\* browser's default action unless it was prevented.
KeyDown(track) ==
    /\ activeElement # "browserUI"
    /\ \E key \in Keys, shiftKey \in BOOLEAN :
         LET event == [key |-> key, shiftKey |-> shiftKey]
             s1 == Dispatch(Page, event, Len(listeners))
             s2 == IF key = "Tab" /\ ~s1.prevented
                   THEN [s1 EXCEPT !.focus = SeqNav(s1, ~shiftKey)]
                   ELSE s1
         IN  /\ key # "Tab" => ~shiftKey
             /\ Commit(s2, EventName(event), activeElement)
             /\ TrackRun(track, key = "Tab" /\ ~shiftKey)

\* Tab or Shift+Tab pressed while focus is on the browser's own controls:
\* no event reaches the page, focus enters it at its first (last) stop.
BrowserTab(track) ==
    /\ activeElement = "browserUI"
    /\ \E shiftKey \in BOOLEAN :
         /\ Commit([Page EXCEPT !.focus = SeqNav(Page, ~shiftKey)],
                   IF shiftKey THEN "browserShiftTab" ELSE "browserTab", "browserUI")
         /\ TrackRun(track, ~shiftKey)

NoEvent ==
    [ev |-> "none", target |-> "none", from |-> "body", wasOpen |-> FALSE,
     registered |-> 0, cycle |-> <<>>, prevented |-> FALSE, closes |-> 0]

Range(q) == {q[i] : i \in 1..Len(q)}

RECURSIVE SeqsUpTo(_, _)
\* The sequences over S of length at most n.
SeqsUpTo(S, n) ==
    IF n = 0 THEN {<<>>}
    ELSE LET shorter == SeqsUpTo(S, n - 1)
         IN  shorter \cup {Append(q, x) : q \in shorter, x \in S}

-----------------------------------------------------------------------------
(* MODULE 2: form validation.  A string is a sequence of characters.  The    *)
(* handlers act on a record s of the form's state: value, ariaInvalid,       *)
(* errorText, formStatus and focus.                                          *)

Fields == <<"name", "email", "message">>
FieldSet == {Fields[i] : i \in 1..Len(Fields)}

NameRequired == "Full Name is required. Please enter your name."
NameTooShort == "Name must be at least 2 characters."
EmailRequired == "Email Address is required. Please enter your email."
EmailInvalid == "Please enter a valid email address (e.g. name@example.com)."
MessageRequired == "Message is required. Please enter your message."
MessageTooShort == "Message must be at least 10 characters."
SubmitFailed ==
    "Form submission failed. Please correct the errors indicated below each field."
SubmitSucceeded == "Thank you! Your message has been sent successfully."

MinNameLength == 2
MinMessageLength == 10

\* \s of the regular expression, and what trim() strips.
IsWhitespace(c) == c \in {" ", "\t", "\n"}

RECURSIVE trimStart(_)
trimStart(str) ==
    IF str # <<>> /\ IsWhitespace(Head(str)) THEN trimStart(Tail(str)) ELSE str

RECURSIVE trimEnd(_)
trimEnd(str) ==
    IF str # <<>> /\ IsWhitespace(str[Len(str)])
    THEN trimEnd(SubSeq(str, 1, Len(str) - 1))
    ELSE str

\* String.prototype.trim().
trim(str) == trimEnd(trimStart(str))

\* /^[^\s@]+@[^\s@]+\.[^\s@]+$/ as the automaton the pattern compiles to:
\* state 0 before the local part, 1 inside it, 2 after "@", 3 inside the
\* domain, 4 after a "." of the domain, 5 inside the last part (accepting).
\* A "." is also a [^\s@], so from 3 it may go on in 3 or move to 4.
RegexStep(q, c) ==
    LET plain == ~IsWhitespace(c) /\ c # "@"
    IN  CASE q = 0 -> IF plain THEN {1} ELSE {}
          [] q = 1 -> IF plain THEN {1} ELSE IF c = "@" THEN {2} ELSE {}
          [] q = 2 -> IF plain THEN {3} ELSE {}
          [] q = 3 -> IF plain THEN (IF c = "." THEN {3, 4} ELSE {3}) ELSE {}
          [] q = 4 -> IF plain THEN {5} ELSE {}
          [] q = 5 -> IF plain THEN {5} ELSE {}

RECURSIVE RegexRun(_, _)
\* The states the automaton can be in after reading str from the states Q.
RegexRun(Q, str) ==
    IF str = <<>> THEN Q
    ELSE RegexRun(UNION {RegexStep(q, Head(str)) : q \in Q}, Tail(str))

\* A variant of the test without the "." part: /^[^\s@]+@[^\s@]+$/.
EmailRegexTest_NoDot(str) == RegexRun({0}, str) \cap {3, 5} # {}

\* /^[^\s@]+@[^\s@]+\.[^\s@]+$/.test(str)
EmailRegexTest(str) == 5 \in RegexRun({0}, str)

\* A variant of the switch whose message rule rejects 10 characters too
\* (<= for <).
ruleMessage_OffByOne(f, v) ==
    CASE f = "name" ->
           IF trim(v) = <<>> THEN NameRequired
           ELSE IF Len(trim(v)) < MinNameLength THEN NameTooShort
           ELSE ""
      [] f = "email" ->
           IF trim(v) = <<>> THEN EmailRequired
           ELSE IF ~EmailRegexTest(trim(v)) THEN EmailInvalid
           ELSE ""
      [] f = "message" ->
           IF trim(v) = <<>> THEN MessageRequired
           ELSE IF Len(trim(v)) <= MinMessageLength THEN MessageTooShort
           ELSE ""
      [] OTHER -> ""

\* The switch of validateField: the message for field f holding value v, ""
\* when v passes.
ruleMessage(f, v) ==
    CASE f = "name" ->
           IF trim(v) = <<>> THEN NameRequired
           ELSE IF Len(trim(v)) < MinNameLength THEN NameTooShort
           ELSE ""
      [] f = "email" ->
           IF trim(v) = <<>> THEN EmailRequired
           ELSE IF ~EmailRegexTest(trim(v)) THEN EmailInvalid
           ELSE ""
      [] f = "message" ->
           IF trim(v) = <<>> THEN MessageRequired
           ELSE IF Len(trim(v)) < MinMessageLength THEN MessageTooShort
           ELSE ""
      [] OTHER -> ""

\* A variant of setFieldError that sets the marker and leaves the container
\* as it is.
setFieldError_MarkerOnly(s, f, message) ==
    [s EXCEPT !.ariaInvalid[f] = TRUE]

setFieldError(s, f, message) ==
    [s EXCEPT !.ariaInvalid[f] = TRUE, !.errorText[f] = message]

clearFieldError(s, f) ==
    [s EXCEPT !.ariaInvalid[f] = FALSE, !.errorText[f] = ""]

\* validateField(field): the form's state afterwards and the value returned.
validateField(s, f) ==
    LET s1 == clearFieldError(s, f)
        message == ruleMessage(f, s.value[f])
    IN  IF message # "" THEN [state |-> setFieldError(s1, f, message), ret |-> FALSE]
        ELSE [state |-> s1, ret |-> TRUE]

\* The blur listener of each field.
blurHandler(s, f) == validateField(s, f).state

\* Focus moves to x: the field that had it gets a blur event.
MoveFocus(s, x) ==
    IF s.focus = x THEN s
    ELSE IF s.focus \in FieldSet THEN [blurHandler(s, s.focus) EXCEPT !.focus = x]
    ELSE [s EXCEPT !.focus = x]

\* form.reset(): every field is back at its default value, which is empty.
formReset(s) == [s EXCEPT !.value = [f \in FieldSet |-> <<>>]]

\* A variant of the submit listener that stops validating at the first
\* field that fails.
submitHandler_ShortCircuit(s) ==
    LET r1 == validateField(s, Fields[1])
        r2 == IF r1.ret THEN validateField(r1.state, Fields[2]) ELSE r1
        r3 == IF r2.ret THEN validateField(r2.state, Fields[3]) ELSE r2
        results == <<r1.ret, r2.ret, r3.ret>>
        failed == {i \in 1..Len(Fields) : ~results[i]}
    IN  IF failed # {}
        THEN [MoveFocus(r3.state, Fields[SetMin(failed)]) EXCEPT
                 !.formStatus = [className |-> "form-status error",
                                 textContent |-> SubmitFailed]]
        ELSE formReset([r3.state EXCEPT
                 !.formStatus = [className |-> "form-status success",
                                 textContent |-> SubmitSucceeded]])

\* A variant of the submit listener that does not reset the form.
submitHandler_NoReset(s) ==
    LET r1 == validateField(s, Fields[1])
        r2 == validateField(r1.state, Fields[2])
        r3 == validateField(r2.state, Fields[3])
        results == <<r1.ret, r2.ret, r3.ret>>
        failed == {i \in 1..Len(Fields) : ~results[i]}
    IN  IF failed # {}
        THEN [MoveFocus(r3.state, Fields[SetMin(failed)]) EXCEPT
                 !.formStatus = [className |-> "form-status error",
                                 textContent |-> SubmitFailed]]
        ELSE [r3.state EXCEPT
                 !.formStatus = [className |-> "form-status success",
                                 textContent |-> SubmitSucceeded]]

\* The submit listener.
submitHandler(s) ==
    LET r1 == validateField(s, Fields[1])
        r2 == validateField(r1.state, Fields[2])
        r3 == validateField(r2.state, Fields[3])
        results == <<r1.ret, r2.ret, r3.ret>>
        failed == {i \in 1..Len(Fields) : ~results[i]}
    IN  IF failed # {}
        THEN [MoveFocus(r3.state, Fields[SetMin(failed)]) EXCEPT
                 !.formStatus = [className |-> "form-status error",
                                 textContent |-> SubmitFailed]]
        ELSE formReset([r3.state EXCEPT
                 !.formStatus = [className |-> "form-status success",
                                 textContent |-> SubmitSucceeded]])

Form ==
    [value |-> value, ariaInvalid |-> ariaInvalid, errorText |-> errorText,
     formStatus |-> formStatus, focus |-> activeElement]

FormCommit(s, name) ==
    /\ value' = s.value
    /\ ariaInvalid' = s.ariaInvalid
    /\ errorText' = s.errorText
    /\ formStatus' = s.formStatus
    /\ activeElement' = s.focus
    /\ lastForm' = [ev |-> name, from |-> activeElement,
                    before |-> IF name = "submit" THEN value ELSE s.value]
    /\ UNCHANGED <<els, ariaHidden, isOpen, inert, listeners, last, runVars,
                   tableVars, absentVars>>

\* k times the character c.
Rep(c, k) == [i \in 1..k |-> c]

\* What one keystroke makes of the text cur: a character of chars added at
\* the end (up to max characters), or the last character deleted.
Typed(cur, chars, max) ==
    {Append(cur, c) : c \in IF Len(cur) < max THEN chars ELSE {}}
        \cup (IF cur = <<>> THEN {} ELSE {SubSeq(cur, 1, Len(cur) - 1)})

\* Whole values put into a field at once (pasted or filled in).
Samples(f) ==
    CASE f = "name" -> SeqsUpTo({"a", " "}, MaxNameLen)
      [] f = "email" -> {<<>>, <<" ">>, <<"a", "@", "a">>, <<"a", "@", "a", ".", "a">>}
      [] f = "message" ->
           {<<>>, Rep("a", MinMessageLength - 1), Rep("a", MinMessageLength),
            <<" ">> \o Rep("a", MinMessageLength - 1)}

\* The values an input event can give field f, which holds cur.  What is
\* typed depends on the profile: whole values in every field ("form"), or
\* keystrokes in the one field under study ("email", "message").
NextValues(profile, f, cur) ==
    CASE profile = "form" -> Samples(f) \ {cur}
      [] profile = "email" /\ f = "email" ->
           Typed(cur, {"a", "@", ".", " "}, MaxEmailLen)
      [] profile = "message" /\ f = "message" ->
           Typed(cur, {"a", " "}, MaxMessageLen)
      [] OTHER -> {}

\* A variant in which an input listener validates the field on every edit.
Input_Validating(profile) ==
    /\ activeElement \in FieldSet
    /\ \E v \in NextValues(profile, activeElement, value[activeElement]) :
         FormCommit(validateField([Form EXCEPT !.value[activeElement] = v],
                                  activeElement).state, "input")

\* An input event: the value of the focused field changes.  No listener of
\* the script is registered for it.
Input(profile) ==
    /\ activeElement \in FieldSet
    /\ \E v \in NextValues(profile, activeElement, value[activeElement]) :
         FormCommit([Form EXCEPT !.value[activeElement] = v], "input")

\* The user moves focus to a field or to the submit button (by Tab or by a
\* click); a field that had focus gets its blur event.
FocusStep ==
    \E x \in (FieldSet \cup {"submitBtn"}) \ {activeElement} :
        FormCommit(MoveFocus(Form, x), "focus")

\* The form is submitted: by a click on the submit button, which takes
\* focus first, or by Enter in one of the two inputs.
Submit ==
    \/ FormCommit(submitHandler(MoveFocus(Form, "submitBtn")), "submit")
    \/ /\ activeElement \in {"name", "email"}
       /\ FormCommit(submitHandler(Form), "submit")

-----------------------------------------------------------------------------
(* MODULE 3: the sortable table.  A cell's text is a sequence of characters; *)
(* a row is its identity (the <tr> node) and its cells.  The handlers act on *)
(* a record s of the table's state: rows, sortState, ariaSort, announcer and *)
(* timers.                                                                   *)

\* The label of each column's sort button, by column index + 1.
ColumnLabel == <<"Course Name", "Credits">>

\* The column indices (data-col of the sort buttons).
Columns == 0..(Len(ColumnLabel) - 1)

Digits == <<"0", "1", "2", "3", "4", "5", "6", "7", "8", "9">>

IsDigit(c) == \E i \in 1..Len(Digits) : Digits[i] = c

DigitValue(c) == (CHOOSE i \in 1..Len(Digits) : Digits[i] = c) - 1

\* How many digits str begins with.
LeadingDigits(str) ==
    LET others == {i \in 1..Len(str) : ~IsDigit(str[i])}
    IN  IF others = {} THEN Len(str) ELSE SetMin(others) - 1

RECURSIVE NumeralValue(_)
\* The number a sequence of digits denotes.
NumeralValue(ds) ==
    IF ds = <<>> THEN 0
    ELSE 10 * NumeralValue(SubSeq(ds, 1, Len(ds) - 1)) + DigitValue(ds[Len(ds)])

RECURSIVE Pow10(_)
Pow10(k) == IF k = 0 THEN 1 ELSE 10 * Pow10(k - 1)

\* A number with scale decimal places: mant / 10^scale.
NaN == [nan |-> TRUE, mant |-> 0, scale |-> 0]

\* parseFloat(string): leading whitespace is skipped, then the longest prefix
\* that is a decimal literal (sign, digits, "." and digits) is the number, and
\* what follows it is ignored; NaN when there is no such prefix.  (The texts
\* of the model hold no exponent and no "Infinity".)
parseFloat(string) ==
    LET t    == trimStart(string)
        neg  == t # <<>> /\ Head(t) = "-"
        u    == IF t # <<>> /\ Head(t) \in {"+", "-"} THEN Tail(t) ELSE t
        n    == LeadingDigits(u)
        rest == SubSeq(u, n + 1, Len(u))
        m    == IF rest # <<>> /\ Head(rest) = "." THEN LeadingDigits(Tail(rest)) ELSE 0
        ds   == SubSeq(u, 1, n) \o SubSeq(rest, 2, m + 1)
    IN  IF n + m = 0 THEN NaN
        ELSE [nan |-> FALSE,
              mant |-> (IF neg THEN 0 - NumeralValue(ds) ELSE NumeralValue(ds)),
              scale |-> m]

\* isNaN(num)
isNaN(num) == num.nan

\* numA - numB, up to a positive factor.
Minus(numA, numB) == numA.mant * Pow10(numB.scale) - numB.mant * Pow10(numA.scale)

\* The order of the characters in the collation of the default locale:
\* whitespace, punctuation, symbols, digits, letters.
CollationOrder ==
    <<" ", "-", ".", "+">> \o Digits \o <<"a", "b">>

Rank(c) == CHOOSE i \in 1..Len(CollationOrder) : CollationOrder[i] = c

RECURSIVE localeCompare(_, _)
\* a.localeCompare(b): negative, zero or positive.  The characters of the
\* model all differ at the first level of the collation, so the strings
\* compare character by character.
localeCompare(a, b) ==
    IF a = <<>> THEN (IF b = <<>> THEN 0 ELSE 0 - 1)
    ELSE IF b = <<>> THEN 1
    ELSE IF Rank(Head(a)) < Rank(Head(b)) THEN 0 - 1
    ELSE IF Rank(Head(a)) > Rank(Head(b)) THEN 1
    ELSE localeCompare(Tail(a), Tail(b))

\* A variant of the comparator that always compares the texts as strings.
compareRows_Locale(rowA, rowB, colIndex, ascending) ==
    LET cellA == trim(rowA.cells[colIndex + 1])
        cellB == trim(rowB.cells[colIndex + 1])
    IN  IF ascending THEN localeCompare(cellA, cellB)
        ELSE localeCompare(cellB, cellA)

\* The comparator handed to rows.sort.
compareRows(rowA, rowB, colIndex, ascending) ==
    LET cellA == trim(rowA.cells[colIndex + 1])
        cellB == trim(rowB.cells[colIndex + 1])
        numA  == parseFloat(cellA)
        numB  == parseFloat(cellB)
    IN  IF ~isNaN(numA) /\ ~isNaN(numB)
        THEN (IF ascending THEN Minus(numA, numB) ELSE Minus(numB, numA))
        ELSE IF ascending THEN localeCompare(cellA, cellB)
             ELSE localeCompare(cellB, cellA)

\* Whether the comparator is consistent for the rows rs, as Array.prototype.sort
\* requires of it: "equal", "before" and "after" are transitive.  (It is
\* reflexive and symmetric by construction.)
ConsistentComparator(rs, colIndex, ascending) ==
    \A i, j, k \in 1..Len(rs) :
        LET ab == compareRows(rs[i], rs[j], colIndex, ascending)
            bc == compareRows(rs[j], rs[k], colIndex, ascending)
            ac == compareRows(rs[i], rs[k], colIndex, ascending)
        IN  /\ (ab = 0 /\ bc = 0) => ac = 0
            /\ (ab < 0 /\ bc < 0) => ac < 0
            /\ (ab > 0 /\ bc > 0) => ac > 0

RECURSIVE StableSort(_, _, _, _)
\* The first n rows of rs in the order of the comparator, rows that compare
\* equal in their order in rs (the sort is stable).
StableSort(rs, n, colIndex, ascending) ==
    IF n = 0 THEN <<>>
    ELSE LET sorted == StableSort(rs, n - 1, colIndex, ascending)
             before == {i \in 1..Len(sorted) :
                           compareRows(sorted[i], rs[n], colIndex, ascending) <= 0}
             k      == Cardinality(before)
         IN  SubSeq(sorted, 1, k) \o <<rs[n]>> \o SubSeq(sorted, k + 1, Len(sorted))

\* A variant of the sort that orders the cells of the column alone and
\* leaves every row, with its other cells, in its place.
ArraySort_CellsOnly(rs, colIndex, ascending) ==
    LET sorted == StableSort(rs, Len(rs), colIndex, ascending)
    IN  {[i \in 1..Len(rs) |->
            [rs[i] EXCEPT !.cells[colIndex + 1] = sorted[i].cells[colIndex + 1]]]}

\* The orders rows.sort(compare) can leave rs in: the stable sorted order
\* when the comparator is consistent for these rows; otherwise the order is
\* implementation-defined, any arrangement of the same rows.
ArraySort(rs, colIndex, ascending) ==
    IF ConsistentComparator(rs, colIndex, ascending)
    THEN {StableSort(rs, Len(rs), colIndex, ascending)}
    ELSE {[i \in 1..Len(rs) |-> rs[p[i]]] :
             p \in {q \in [1..Len(rs) -> 1..Len(rs)] :
                       \A i, j \in 1..Len(rs) : q[i] = q[j] => i = j}}

\* A variant of the direction rule that keeps the direction when another
\* column is chosen.
nextSortState_KeepDir(state, colIndex) ==
    IF state.col = colIndex
    THEN [state EXCEPT !.dir = IF state.dir = "asc" THEN "desc" ELSE "asc"]
    ELSE [state EXCEPT !.col = colIndex]

\* The direction rule of sortTable.
nextSortState(state, colIndex) ==
    IF state.col = colIndex
    THEN [state EXCEPT !.dir = IF state.dir = "asc" THEN "desc" ELSE "asc"]
    ELSE [col |-> colIndex, dir |-> "asc"]

\* A variant of the aria-sort update that leaves the other headers as they
\* are.
setAriaSort_NoReset(aria, clickedTh, ascending) ==
    [aria EXCEPT ![clickedTh] = IF ascending THEN "ascending" ELSE "descending"]

\* The aria-sort update of sortTable: every th[aria-sort] is set to "none",
\* then the clicked header to the direction.
setAriaSort(aria, clickedTh, ascending) ==
    LET reset == [th \in DOMAIN aria |->
                     IF aria[th] = "absent" THEN "absent" ELSE "none"]
    IN  [reset EXCEPT ![clickedTh] = IF ascending THEN "ascending" ELSE "descending"]

\* The text sortTable announces.
Announcement(columnName, dirText) ==
    "Table sorted by " \o columnName \o ", " \o dirText \o "."

\* sortTable(colIndex, clickedTh), sorted being the order rows.sort leaves.
sortTable(s, colIndex, clickedTh, sorted) ==
    LET state      == nextSortState(s.sortState, colIndex)
        ascending  == state.dir = "asc"
        columnName == ColumnLabel[clickedTh + 1]
        dirText    == IF ascending THEN "ascending" ELSE "descending"
    IN  [sortState |-> state,
         rows      |-> sorted,
         ariaSort  |-> setAriaSort(s.ariaSort, clickedTh, ascending),
         announcer |-> "",
         timers    |-> Append(s.timers, Announcement(columnName, dirText))]

\* A variant in which the callback set last runs first.
timeoutCallback_NewestFirst(s) ==
    [s EXCEPT !.announcer = s.timers[Len(s.timers)],
              !.timers = SubSeq(s.timers, 1, Len(s.timers) - 1)]

\* The callback of setTimeout: the announcement is put into the live region.
timeoutCallback(s) ==
    [s EXCEPT !.announcer = Head(s.timers), !.timers = Tail(s.timers)]

Table ==
    [sortState |-> sortState, rows |-> rows, ariaSort |-> ariaSort,
     announcer |-> announcer, timers |-> timers]

TableCommit(s, name, col) ==
    /\ sortState' = s.sortState
    /\ rows' = s.rows
    /\ ariaSort' = s.ariaSort
    /\ announcer' = s.announcer
    /\ timers' = s.timers
    /\ lastTable' = [ev |-> name, col |-> col, sortState |-> sortState,
                     rows |-> rows, announcer |-> announcer]
    /\ UNCHANGED compared
    /\ UNCHANGED <<modalVars, runVars, formVars, absentVars>>

\* A click on the sort button of a column: its listener finds the button's
\* header and data-col and calls sortTable.  pending bounds the callbacks
\* that wait at one time.
SortBtnClick(pending) ==
    /\ Len(timers) < pending
    /\ \E col \in Columns :
         \E sorted \in ArraySort(rows, col, nextSortState(sortState, col).dir = "asc") :
             TableCommit(sortTable(Table, col, col, sorted), "click", col)

\* The oldest delayed callback runs (all have the same delay, so they run in
\* the order they were set).
Timeout ==
    /\ timers # <<>>
    /\ TableCommit(timeoutCallback(Table), "timeout", lastTable.col)

\* The texts of the cells of the second column: numbers, one of them
\* written in two ways, and a text that is no number.
CellTexts ==
    { <<"2">>, <<"3">>, <<"1", "0">>, <<"+", "3">>, <<"+", "a">> }

\* The table whose second column holds texts, row i being named by i
\* letters.
MakeRows(texts) ==
    [i \in 1..Len(texts) |->
        [id |-> i,
         cells |-> <<Rep(IF i % 2 = 1 THEN "b" ELSE "a", i), texts[i]>>]]

\* The texts the comparator is applied to: those of the tables, and a number
\* followed by another character.
CompareTexts == CellTexts \cup { <<"2", "a">> }

Sign(n) == IF n < 0 THEN 0 - 1 ELSE IF n > 0 THEN 1 ELSE 0

\* What the comparator returns (its sign) for the rows a, b and c in column
\* colIndex: a against b, b against a, b against c, a against c.
Comparisons(a, b, c, colIndex, ascending) ==
    [ab |-> Sign(compareRows(a, b, colIndex, ascending)),
     ba |-> Sign(compareRows(b, a, colIndex, ascending)),
     bc |-> Sign(compareRows(b, c, colIndex, ascending)),
     ac |-> Sign(compareRows(a, c, colIndex, ascending))]

\* rows.sort calls the comparator on three rows of a table, in either
\* direction.
Compare ==
    /\ \E texts \in [1..3 -> CompareTexts] :
         LET rs == MakeRows(texts)
         IN  compared' = [cells |-> texts,
                          asc   |-> Comparisons(rs[1], rs[2], rs[3], 1, TRUE),
                          desc  |-> Comparisons(rs[1], rs[2], rs[3], 1, FALSE)]
    /\ UNCHANGED <<modalVars, runVars, formVars, absentVars,
                   rows, sortState, ariaSort, announcer, timers, lastTable>>

NoComparison ==
    [cells |-> <<>>,
     asc   |-> [ab |-> 0, ba |-> 0, bc |-> 0, ac |-> 0],
     desc  |-> [ab |-> 0, ba |-> 0, bc |-> 0, ac |-> 0]]

NoTableEvent ==
    [ev |-> "none", col |-> 0 - 1, sortState |-> [col |-> 0 - 1, dir |-> "asc"],
     rows |-> <<>>, announcer |-> ""]

\* The table as loaded: unsorted, the live region empty, no callback set.
TableLoaded(rs, aria) ==
    /\ rows = rs
    /\ sortState = [col |-> 0 - 1, dir |-> "asc"]
    /\ ariaSort = aria
    /\ announcer = ""
    /\ timers = <<>>
    /\ lastTable = NoTableEvent
    /\ compared = NoComparison

-----------------------------------------------------------------------------
(* Absent elements.  Each handler is the sequence of its statements, each    *)
(* with the element it dereferences (got from getElementById or              *)
(* querySelector, null when the page lacks it) and what it does ("" for a    *)
(* read).  A handler runs up to the first statement that dereferences an     *)
(* absent element, where it raises a TypeError.                              *)

\* The elements the script looks up.
ModalElements ==
    {"modal-overlay", "modal-dialog", "open-modal-btn", "close-modal-btn",
     "header", "main", "footer"}

ErrorContainer(f) == f \o "-error"

FormElements ==
    {"contact-form", "form-status"} \cup FieldSet
        \cup {ErrorContainer(f) : f \in FieldSet}

TableElements == {"courses-table", "courses-tbody", "table-announce"}

LookedUp == ModalElements \cup FormElements \cup TableElements

\* The guards of the three controllers: whether each goes on to register
\* its listeners when the elements of gone are absent.
initModal(gone) ==
    {"modal-overlay", "modal-dialog", "open-modal-btn", "close-modal-btn"}
        \cap gone = {}

initFormValidation(gone) == "contact-form" \notin gone

initSortableTable(gone) ==
    {"courses-table", "courses-tbody", "table-announce"} \cap gone = {}

St(el, effect) == [el |-> el, effect |-> effect]

openModalStatements ==
    << St("modal-overlay", "aria-hidden=false"),
       St("modal-overlay", "classList.add is-open"),
       St("header", "inert"),
       St("main", "inert"),
       St("footer", "inert"),
       St("modal-dialog", "focus"),
       St("document", "addEventListener keydown") >>

closeModalStatements ==
    << St("modal-overlay", "aria-hidden=true"),
       St("modal-overlay", "classList.remove is-open"),
       St("header", "removeAttribute inert"),
       St("main", "removeAttribute inert"),
       St("footer", "removeAttribute inert"),
       St("open-modal-btn", "focus"),
       St("document", "removeEventListener keydown") >>

\* handleModalKeydown: the focus cycle is read from the dialog, then Escape
\* closes and Tab is handled by the trap.
handleModalKeydownStatements(key) ==
    <<St("modal-dialog", "")>>
        \o (IF key = "Escape" THEN closeModalStatements
            ELSE <<St("modal-dialog", "trap")>>)

\* validateField(field) for field f whose value passes (ok) or fails: the
\* statements on the error container are guarded by if (errorEl).
validateFieldStatements(f, ok, gone) ==
    LET errorEl == ErrorContainer(f)
        guarded(effect) ==
            IF errorEl \in gone THEN <<>> ELSE <<St(errorEl, effect)>>
    IN  <<St(f, ""), St(f, "removeAttribute aria-invalid")>>
            \o guarded("textContent=''")
            \o <<St(f, "")>>
            \o (IF ok THEN <<>>
                ELSE <<St(f, "aria-invalid=true")>> \o guarded("textContent=message"))

\* The submit listener, ok[f] telling whether the value of field f passes.
submitStatements(ok, gone) ==
    LET failed == {i \in 1..Len(Fields) : ~ok[Fields[i]]}
    IN  <<St("event", "preventDefault")>>
            \o validateFieldStatements(Fields[1], ok[Fields[1]], gone)
            \o validateFieldStatements(Fields[2], ok[Fields[2]], gone)
            \o validateFieldStatements(Fields[3], ok[Fields[3]], gone)
            \o (IF failed # {}
                THEN <<St(Fields[SetMin(failed)], "focus"),
                       St("form-status", "className=error"),
                       St("form-status", "textContent=failed")>>
                ELSE <<St("form-status", "className=success"),
                       St("form-status", "textContent=succeeded"),
                       St("contact-form", "reset")>>)

sortTableStatements ==
    << St("courses-tbody", "rows sorted"),
       St("courses-table", "aria-sort reset"),
       St("th", "aria-sort set"),
       St("table-announce", "textContent=''"),
       St("window", "setTimeout") >>

\* What a run of stmts does when the elements of gone are absent: the
\* effects of the statements before the first that dereferences one of
\* them, and whether there is such a statement.
Execute(stmts, gone) ==
    LET null == {i \in 1..Len(stmts) : stmts[i].el \in gone}
        n    == IF null = {} THEN Len(stmts) ELSE SetMin(null) - 1
    IN  [performed |-> SelectSeq(SubSeq(stmts, 1, n), LAMBDA st : st.effect # ""),
         raised    |-> null # {}]

\* An event of a controller was handled by stmts (none when its listener
\* was never registered).
Handled(controller, handler, stmts) ==
    LET run  == Execute(stmts, absent)
        did  == {run.performed[i].effect : i \in 1..Len(run.performed)}
    IN  /\ lastRun' = [controller |-> controller, handler |-> handler,
                       performed |-> run.performed, raised |-> run.raised]
        /\ listeners' =
              IF "addEventListener keydown" \in did
              THEN addEventListener(listeners, "handleModalKeydown")
              ELSE IF "removeEventListener keydown" \in did
              THEN removeEventListener(listeners, "handleModalKeydown")
              ELSE listeners
        /\ UNCHANGED <<els, ariaHidden, isOpen, inert, activeElement, last,
                       runVars, formVars, tableVars, absent>>

ClickOpenBtn ==
    /\ "open-modal-btn" \notin absent
    /\ Handled("modal", "openModal",
               IF initModal(absent) THEN openModalStatements ELSE <<>>)

ClickCloseBtn ==
    /\ "close-modal-btn" \notin absent
    /\ Handled("modal", "closeModal",
               IF initModal(absent) THEN closeModalStatements ELSE <<>>)

\* A click on the overlay's backdrop.
ClickBackdrop ==
    /\ "modal-overlay" \notin absent
    /\ Handled("modal", "overlayClick",
               IF initModal(absent) THEN closeModalStatements ELSE <<>>)

\* Escape or Tab pressed: handled when the keydown listener is registered.
PressKey ==
    \E key \in {"Escape", "Tab"} :
        Handled("modal", "handleModalKeydown",
                IF listeners # <<>> THEN handleModalKeydownStatements(key) ELSE <<>>)

SubmitForm ==
    /\ "contact-form" \notin absent
    /\ \E ok \in [FieldSet -> BOOLEAN] :
         Handled("form", "submit",
                 IF initFormValidation(absent) THEN submitStatements(ok, absent)
                 ELSE <<>>)

\* A field loses focus: its blur listener was registered if the controller
\* initialized (the field is there, or it could not lose focus).
BlurField ==
    \E f \in FieldSet \ absent, ok \in BOOLEAN :
        Handled("form", "blur",
                IF initFormValidation(absent)
                THEN validateFieldStatements(f, ok, absent) ELSE <<>>)

ClickSortBtn ==
    Handled("table", "sortTable",
            IF initSortableTable(absent) THEN sortTableStatements ELSE <<>>)

NoRun == [controller |-> "none", handler |-> "none", performed |-> <<>>, raised |-> FALSE]

\* Every element the script looks up is in the page.
AllPresent ==
    /\ absent = {}
    /\ lastRun = NoRun

-----------------------------------------------------------------------------
(* The specifications *)

ModalLoaded ==
    /\ ariaHidden = "true"
    /\ isOpen = FALSE
    /\ inert = [r \in Landmarks |-> FALSE]
    /\ activeElement = "body"
    /\ listeners = <<>>
    /\ last = NoEvent
    /\ tabRun = 0
    /\ tabStart = "body"

FormLoaded ==
    /\ value = [f \in FieldSet |-> <<>>]
    /\ ariaInvalid = [f \in FieldSet |-> FALSE]
    /\ errorText = [f \in FieldSet |-> ""]
    /\ formStatus = [className |-> "form-status", textContent |-> ""]
    /\ lastForm = [ev |-> "none", from |-> "body",
                   before |-> [f \in FieldSet |-> <<>>]]

\* The page as loaded: the dialog closed and hidden, nothing inert, no
\* listener on document, nothing focused, the form empty and without errors.
\* The dialog's content is any sequence of elements.
Init ==
    /\ els \in SeqsUpTo(ElementKinds, MaxEls)
    /\ ModalLoaded
    /\ FormLoaded
    /\ TableLoaded(<<>>, [th \in Columns |-> "none"])
    /\ AllPresent

ModalNext(track) ==
    \/ OpenBtnClick(track)
    \/ CloseBtnClick(track)
    \/ OverlayClick(track)
    \/ KeyDown(track)
    \/ BrowserTab(track)

Next == ModalNext(FALSE)

\* The modal under clicks and key presses.
Spec == Init /\ [][Next]_vars

NextRun == ModalNext(TRUE)

\* The modal, with runs of Tab presses counted.
SpecRun == Init /\ [][NextRun]_vars

FormInit ==
    /\ els = <<>>
    /\ ModalLoaded
    /\ FormLoaded
    /\ TableLoaded(<<>>, [th \in Columns |-> "none"])
    /\ AllPresent

FormNext(profile) ==
    \/ Input(profile)
    \/ FocusStep
    \/ Submit

NextForm == FormNext("form")

\* The form, with whole values put into its three fields.
SpecForm == FormInit /\ [][NextForm]_vars

NextEmail == FormNext("email")

\* The form, with every text typed into the email field.
SpecEmail == FormInit /\ [][NextEmail]_vars

NextMessage == FormNext("message")

\* The form, with every text typed into the message field.
SpecMessage == FormInit /\ [][NextMessage]_vars

\* The table with any texts in its second column, every header carrying
\* aria-sort="none".
SortInit ==
    /\ els = <<>>
    /\ ModalLoaded
    /\ FormLoaded
    /\ \E texts \in SeqsUpTo(CellTexts, MaxRows) :
         TableLoaded(MakeRows(texts), [th \in Columns |-> "none"])
    /\ AllPresent

NextSort == SortBtnClick(1) \/ Timeout

\* The table under sort clicks, each announced before the next.
SpecSort == SortInit /\ [][NextSort]_vars

\* One table, its headers with any aria-sort attribute or none.
AnnounceInit ==
    /\ els = <<>>
    /\ ModalLoaded
    /\ FormLoaded
    /\ \E aria \in [Columns -> {"absent", "none", "ascending", "descending"}] :
         TableLoaded(MakeRows(<<<<"3">>, <<"1", "0">>, <<"2">>>>), aria)
    /\ AllPresent

NextAnnounce == SortBtnClick(MaxPending) \/ Timeout

\* The table under sort clicks that come before earlier announcements were
\* delivered.
SpecAnnounce == AnnounceInit /\ [][NextAnnounce]_vars

CompareInit ==
    /\ els = <<>>
    /\ ModalLoaded
    /\ FormLoaded
    /\ TableLoaded(<<>>, [th \in Columns |-> "none"])
    /\ AllPresent

NextCompare == Compare

\* The comparator of the sort, applied to every three cell texts.
SpecCompare == CompareInit /\ [][NextCompare]_vars

\* The page with up to MaxAbsent of the elements the script looks up
\* absent.
AbsentInit ==
    /\ els = <<>>
    /\ ModalLoaded
    /\ FormLoaded
    /\ TableLoaded(<<>>, [th \in Columns |-> "none"])
    /\ absent \in {Range(q) : q \in SeqsUpTo(LookedUp, MaxAbsent)}
    /\ lastRun = NoRun

NextAbsent ==
    \/ ClickOpenBtn
    \/ ClickCloseBtn
    \/ ClickBackdrop
    \/ PressKey
    \/ SubmitForm
    \/ BlurField
    \/ ClickSortBtn

\* The three controllers on a page that lacks elements.
SpecAbsent == AbsentInit /\ [][NextAbsent]_vars

-----------------------------------------------------------------------------
(* The modal's properties *)

DialogElements == {"dialog"} \cup Children

\* C1: whenever an event closed the dialog (Escape, a click on the close
\* button, a click on the overlay backdrop), focus is afterwards on the
\* button that opens it.
C1_CloseRestoresFocus ==
    (last.closes > 0 /\ last.ev \in {"Escape", "closeBtnClick", "overlayClick"})
        => activeElement = "openBtn"

\* C1 happens: Escape pressed with focus on an element of the open dialog
\* closed it and focus is on the open button.
C1_Witness ==
    /\ last.ev = "Escape"
    /\ last.wasOpen
    /\ last.from \in Children
    /\ last.closes = 1
    /\ ~isOpen
    /\ activeElement = "openBtn"

\* C2: in an open dialog whose focus cycle has N >= 1 operable elements, a
\* run of Tab presses that began on an element of the cycle is back on that
\* element after exactly N presses and on another element after fewer.
C2_CycleClosesAfterN ==
    LET cycle == getFocusableElements(Page)
        N == Cardinality({x \in Range(cycle) : Tabbable(Page, x)})
    IN  (isOpen /\ N >= 1 /\ tabStart \in Range(cycle))
            => /\ tabRun = N => activeElement = tabStart
               /\ (0 < tabRun /\ tabRun < N) => activeElement # tabStart

\* C3: with the dialog open and its focus cycle not empty, Shift+Tab on the
\* first element of the cycle moves focus to the last and Tab on the last
\* moves it to the first, the default suppressed in both cases.
C3_WrapAtEnds ==
    LET cycle == last.cycle
    IN  (last.wasOpen /\ Len(cycle) > 0)
            => /\ (last.ev = "ShiftTab" /\ last.from = cycle[1])
                    => (activeElement = cycle[Len(cycle)] /\ last.prevented)
               /\ (last.ev = "Tab" /\ last.from = cycle[Len(cycle)])
                    => (activeElement = cycle[1] /\ last.prevented)

\* C4: while the dialog is open, after a Tab or Shift+Tab press focus is on
\* the dialog or on an element inside it.
C4_FocusStaysInDialog ==
    (last.wasOpen /\ last.ev \in {"Tab", "ShiftTab"})
        => activeElement \in DialogElements

\* C4 fails on a dialog whose focus cycle holds only elements that take
\* focus: Shift+Tab pressed with focus on the dialog itself was not
\* suppressed and focus left the page.
C4_Witness ==
    /\ isOpen
    /\ \A x \in Range(last.cycle) : Tabbable(Page, x)
    /\ last.cycle # <<>>
    /\ last.ev = "ShiftTab"
    /\ last.from = "dialog"
    /\ ~last.prevented
    /\ activeElement = "browserUI"

\* C5: after open the overlay has aria-hidden "false" and the open class, the
\* three landmarks are inert, and focus is on the first element of the focus
\* cycle, or on the dialog when the cycle is empty.
C5_OpenEffects ==
    LET cycle == getFocusableElements(Page)
    IN  last.ev = "openBtnClick"
            => /\ ariaHidden = "false"
               /\ isOpen
               /\ \A r \in Landmarks : inert[r]
               /\ activeElement = IF cycle = <<>> THEN "dialog" ELSE cycle[1]

\* C6: the keydown listener is registered at most once, whatever the opens
\* and closes; an Escape press calls closeModal once when the listener is
\* registered (and not at all otherwise), and after a close no listener is
\* left.
C6_InterceptorOnce ==
    /\ Len(listeners) <= 1
    /\ last.ev = "Escape" => last.closes = (IF last.registered > 0 THEN 1 ELSE 0)
    /\ last.closes > 0 => listeners = <<>>

\* C6 happens: the dialog was opened again while it was open, and one
\* listener is registered.
C6_Witness ==
    /\ last.ev = "openBtnClick"
    /\ last.wasOpen
    /\ last.registered = 1
    /\ Len(listeners) = 1

\* C19: the dialog is shown (the open class, aria-hidden "false"), the three
\* landmarks are inert and the keydown listener is registered, all together
\* or none of them, whatever the opens, closes, Escape presses and clicks.
C19_OpenInertListenerAgree ==
    /\ isOpen <=> ariaHidden = "false"
    /\ isOpen <=> (\A r \in Landmarks : inert[r])
    /\ ~isOpen <=> (\A r \in Landmarks : ~inert[r])
    /\ isOpen <=> listeners # <<>>

\* C19 happens: Escape closed the open dialog, and it is hidden, no landmark
\* is inert and no listener is registered.
C19_Witness ==
    /\ last.ev = "Escape"
    /\ last.wasOpen
    /\ last.registered = 1
    /\ ~isOpen
    /\ ariaHidden = "true"
    /\ \A r \in Landmarks : ~inert[r]
    /\ listeners = <<>>

C21_OverlayClickTarget ==
    last.ev = "overlayClick" =>
        IF last.target = "overlay"
        THEN /\ last.closes = 1
             /\ ~isOpen
             /\ ariaHidden = "true"
        ELSE /\ last.closes = 0
             /\ isOpen
             /\ ariaHidden = "false"
             /\ \A r \in Landmarks : inert[r]
             /\ Len(listeners) = last.registered
             /\ listeners # <<>>
             /\ activeElement = last.target

\* C21 happens: a click on an element inside the open dialog left it open,
\* with the listener registered and focus on that element.
C21_Witness ==
    /\ last.ev = "overlayClick"
    /\ last.target \in Children
    /\ last.wasOpen
    /\ isOpen
    /\ Len(listeners) = 1
    /\ activeElement = last.target

\* An element that is operable by keyboard natively (a link, a form
\* control) or is marked operable (a tabindex other than -1).
Operable(e) ==
    \/ e.tag = "a" /\ e.href
    \/ e.tag \in FormControls
    \/ e.tabindex \notin {"none", "-1"}

\* C22: the focus cycle of the shown dialog holds, in document order,
\* exactly the operable elements that are not disabled and not inside a
\* hidden element; a disabled control is not in it, whatever its tabindex.
C22_FocusCycle ==
    LET cycle == getFocusableElements(Page)
    IN  isOpen =>
          /\ \A i \in 1..Len(els) :
                 ChildName[i] \in Range(cycle)
                     <=> (Operable(els[i]) /\ ~els[i].disabled /\ ~els[i].hidden)
          /\ \A i, j \in 1..Len(cycle) :
                 i < j => ChildIndex(cycle[i]) < ChildIndex(cycle[j])

\* C22 fails: the cycle of the shown dialog holds a disabled button.
C22_Witness ==
    /\ isOpen
    /\ \E x \in Range(getFocusableElements(Page)) :
         /\ els[ChildIndex(x)].tag = "button"
         /\ els[ChildIndex(x)].disabled

-----------------------------------------------------------------------------
(* The form's properties *)

\* Empty or nothing but whitespace.
Blank(v) == \A i \in 1..Len(v) : IsWhitespace(v[i])

\* The text of v between its first and its last character that is not
\* whitespace.
Core(v) ==
    LET solid == {i \in 1..Len(v) : ~IsWhitespace(v[i])}
    IN  IF solid = {} THEN <<>> ELSE SubSeq(v, SetMin(solid), SetMax(solid))

\* The shape local@domain.tld: one "@" with a local part before it, and
\* after it a domain, a "." and a last part, none of them empty and none
\* holding whitespace.
HasEmailShape(t) ==
    \E at \in 1..Len(t), dot \in 1..Len(t) :
        /\ t[at] = "@"
        /\ t[dot] = "."
        /\ 1 < at
        /\ at + 1 < dot
        /\ dot < Len(t)
        /\ \A k \in 1..Len(t) : ~IsWhitespace(t[k]) /\ (t[k] = "@" => k = at)

\* validateField has just run on field f alone: f lost focus.
Blurred(f) == lastForm.ev = "focus" /\ lastForm.from = f

Marked(f, message) == ariaInvalid[f] /\ errorText[f] = message

Unmarked(f) == ~ariaInvalid[f] /\ errorText[f] = ""

\* C7: validateField on the email field marks a blank value with the
\* required message, a value that is not blank and whose trimmed text has
\* not the shape local@domain.tld with the invalid-format message, and
\* leaves a value of that shape without marker and message.
C7_EmailRule ==
    Blurred("email") =>
        LET v == value["email"]
        IN  /\ Blank(v) => Marked("email", EmailRequired)
            /\ (~Blank(v) /\ ~HasEmailShape(Core(v))) => Marked("email", EmailInvalid)
            /\ HasEmailShape(Core(v)) => Unmarked("email")

\* C7 happens: the email field lost focus holding a@a.a and carries no error.
C7_Witness ==
    /\ Blurred("email")
    /\ value["email"] = <<"a", "@", "a", ".", "a">>
    /\ Unmarked("email")

\* C8 as stated: validateField on the message field marks every input of 9
\* characters that is not blank as too short and accepts every input of 10
\* characters.
C8_Original ==
    Blurred("message") =>
        LET v == value["message"]
        IN  /\ (Len(v) = 9 /\ ~Blank(v)) => Marked("message", MessageTooShort)
            /\ Len(v) = 10 => Unmarked("message")

\* C8, amended: validateField on the message field marks every input of 9
\* characters that is not blank as too short, and accepts every input whose
\* text without the whitespace around it has 10 characters.
C8_MessageRule ==
    Blurred("message") =>
        LET v == value["message"]
        IN  /\ (Len(v) = 9 /\ ~Blank(v)) => Marked("message", MessageTooShort)
            /\ Len(Core(v)) = 10 => Unmarked("message")

\* C8 happens: the message field lost focus holding 10 characters with no
\* whitespace around them and carries no error.
C8_Witness ==
    /\ Blurred("message")
    /\ Len(value["message"]) = 10
    /\ Len(Core(value["message"])) = 10
    /\ Unmarked("message")

\* The fields whose value v[f] fails its rule, by their place in Fields.
Failing(v) == {i \in 1..Len(Fields) : ruleMessage(Fields[i], v[Fields[i]]) # ""}

\* C9: after a submit every field that failed carries its marker and its
\* message and every other field carries none, and if a field failed focus
\* is on the first of them in the order name, email, message.
C9_SubmitValidatesAll ==
    lastForm.ev = "submit" =>
        LET failing == Failing(lastForm.before)
        IN  /\ \A i \in 1..Len(Fields) :
                 IF i \in failing
                 THEN Marked(Fields[i], ruleMessage(Fields[i], lastForm.before[Fields[i]]))
                 ELSE Unmarked(Fields[i])
            /\ failing # {} => activeElement = Fields[SetMin(failing)]

\* C9 happens: a submit with all three fields failing, made from elsewhere,
\* left all three marked and focus on name.
C9_Witness ==
    /\ lastForm.ev = "submit"
    /\ Failing(lastForm.before) = {1, 2, 3}
    /\ lastForm.from # "name"
    /\ \A f \in FieldSet : ariaInvalid[f] /\ errorText[f] # ""
    /\ activeElement = "name"

\* C10: after a submit with a failing field the form's status is the failure
\* message and no value has changed; after a submit without one the status
\* is the success message, the three values are empty and no field carries a
\* marker or an error text.
C10_SubmitOutcome ==
    lastForm.ev = "submit" =>
        IF Failing(lastForm.before) # {}
        THEN /\ formStatus.textContent = SubmitFailed
             /\ value = lastForm.before
        ELSE /\ formStatus.textContent = SubmitSucceeded
             /\ \A f \in FieldSet : value[f] = <<>> /\ Unmarked(f)

\* C10 happens: a submit of three passing values succeeded and emptied the
\* fields.
C10_Witness ==
    /\ lastForm.ev = "submit"
    /\ \A f \in FieldSet : lastForm.before[f] # <<>>
    /\ Failing(lastForm.before) = {}
    /\ formStatus.textContent = SubmitSucceeded
    /\ \A f \in FieldSet : value[f] = <<>>

\* C11: a field carries aria-invalid exactly when its error container holds
\* a message, in every state the form reaches by edits, blurs and submits.
C11_MarkerIffMessage ==
    \A f \in FieldSet : ariaInvalid[f] <=> errorText[f] # ""

\* C11 happens: a submit left the blank name field with marker and message
\* and the email field, which held a passing value, with neither.
C11_Witness ==
    /\ lastForm.ev = "submit"
    /\ Marked("name", NameRequired)
    /\ lastForm.before["email"] # <<>>
    /\ Unmarked("email")

\* C12: an edit of a field's value leaves every marker, every error text
\* and the form's status as they were; they change only when a field loses
\* focus or the form is submitted.
C12_EditNeverValidates ==
    [][ /\ lastForm'.ev = "input" => UNCHANGED <<ariaInvalid, errorText, formStatus>>
        /\ <<ariaInvalid, errorText, formStatus>>' # <<ariaInvalid, errorText, formStatus>>
              => \/ lastForm'.ev = "submit"
                 \/ lastForm'.ev = "focus" /\ lastForm'.from \in FieldSet ]_vars

\* C12 happens: the name field, marked when it lost focus, was edited to a
\* value that passes and still carries its marker and message.
C12_Witness ==
    /\ lastForm.ev = "input"
    /\ activeElement = "name"
    /\ ruleMessage("name", value["name"]) = ""
    /\ ariaInvalid["name"]
    /\ errorText["name"] # ""

-----------------------------------------------------------------------------
(* The table's properties *)

Flip(dir) == IF dir = "asc" THEN "desc" ELSE "asc"

Reverse(q) == [i \in 1..Len(q) |-> q[Len(q) + 1 - i]]

\* The trimmed text of row r in column col.
CellText(r, col) == trim(r.cells[col + 1])

\* A text that is a number from its first character to its last: a sign or
\* none, then digits with at most one "." among them.
IsNumber(t) ==
    LET u == IF t # <<>> /\ Head(t) \in {"+", "-"} THEN Tail(t) ELSE t
    IN  /\ \E i \in 1..Len(u) : IsDigit(u[i])
        /\ \A i \in 1..Len(u) : IsDigit(u[i]) \/ u[i] = "."
        /\ Cardinality({i \in 1..Len(u) : u[i] = "."}) <= 1

\* C13: a sort click on the active column flips the direction; a click on
\* another column makes it the active one with direction ascending, whatever
\* the direction was; the first sort is ascending.
C13_DirectionRule ==
    lastTable.ev = "click" =>
        /\ sortState.col = lastTable.col
        /\ sortState.dir = IF lastTable.sortState.col = lastTable.col
                           THEN Flip(lastTable.sortState.dir)
                           ELSE "asc"
        /\ lastTable.sortState.col = 0 - 1 => sortState.dir = "asc"

\* C13 happens: with column 0 sorted descending, a click on column 1 made
\* column 1 active and ascending.
C13_Witness ==
    /\ lastTable.ev = "click"
    /\ lastTable.sortState = [col |-> 0, dir |-> "desc"]
    /\ lastTable.col = 1
    /\ sortState = [col |-> 1, dir |-> "asc"]

\* C14: once a sort was made, exactly one header carries an aria-sort other
\* than none, it is the header of the column sorted last, and its value is
\* the direction applied last.
C14_OneSortMarker ==
    lastTable.ev # "none" =>
        /\ {th \in Columns : ariaSort[th] \in {"ascending", "descending"}}
               = {lastTable.col}
        /\ ariaSort[lastTable.col]
               = (IF sortState.dir = "asc" THEN "ascending" ELSE "descending")

\* C14 happens: after a sort of column 0, a click on column 1 left header 0
\* at none and header 1 at ascending.
C14_Witness ==
    /\ lastTable.ev = "click"
    /\ lastTable.sortState.col = 0
    /\ lastTable.col = 1
    /\ ariaSort[0] = "none"
    /\ ariaSort[1] = "ascending"

\* C15: when a column whose cell texts are pairwise distinct was sorted
\* ascending and is sorted again, the rows are in the reverse of the
\* ascending order.
C15_ReverseOnResort ==
    LET col == lastTable.col
    IN  ( /\ lastTable.ev = "click"
          /\ lastTable.sortState = [col |-> col, dir |-> "asc"]
          /\ \A i, j \in 1..Len(rows) :
                 i # j => CellText(rows[i], col) # CellText(rows[j], col) )
            => rows = Reverse(lastTable.rows)

\* C15 fails without any undefined order: a column of pairwise distinct
\* texts, for which the comparator is consistent, was sorted ascending and
\* then again, and the rows are in the order they were in.
C15_Witness ==
    LET col == lastTable.col
    IN  /\ lastTable.ev = "click"
        /\ lastTable.sortState = [col |-> col, dir |-> "asc"]
        /\ sortState = [col |-> col, dir |-> "desc"]
        /\ Len(rows) = 2
        /\ \A i, j \in 1..Len(rows) :
               i # j => CellText(rows[i], col) # CellText(rows[j], col)
        /\ ConsistentComparator(lastTable.rows, col, TRUE)
        /\ ConsistentComparator(lastTable.rows, col, FALSE)
        /\ rows = lastTable.rows

\* C16: after an ascending sort of a column whose cells are all numbers,
\* the rows are in the order of the numbers: no row holds a greater number
\* than a row after it.
C16_NumericOrder ==
    LET col == lastTable.col
    IN  ( /\ lastTable.ev = "click"
          /\ sortState.dir = "asc"
          /\ \A i \in 1..Len(rows) : IsNumber(CellText(rows[i], col)) )
            => \A i, j \in 1..Len(rows) :
                   i < j => Minus(parseFloat(CellText(rows[i], col)),
                                  parseFloat(CellText(rows[j], col))) <= 0

\* C16 happens: the cells 3, 10, 2 sorted ascending are 2, 3, 10.
C16_Witness ==
    /\ lastTable.ev = "click"
    /\ lastTable.col = 1
    /\ sortState.dir = "asc"
    /\ [i \in 1..Len(lastTable.rows) |-> lastTable.rows[i].cells[2]]
           = <<<<"3">>, <<"1", "0">>, <<"2">>>>
    /\ [i \in 1..Len(rows) |-> rows[i].cells[2]]
           = <<<<"2">>, <<"3">>, <<"1", "0">>>>

\* C17: whenever a delayed callback delivers its text to the live region,
\* the live region was empty just before.
C17_EmptyBeforeDelivery ==
    lastTable.ev = "timeout" => lastTable.announcer = ""

\* C17 fails: a callback delivered its text while the live region still held
\* the text of another delivery.
C17_Witness ==
    /\ lastTable.ev = "timeout"
    /\ lastTable.announcer # ""
    /\ announcer # ""
    /\ announcer # lastTable.announcer

\* C23: the comparator compares two rows as numbers only when the trimmed
\* texts of both cells are numbers from the first character to the last,
\* and as strings in the order of the locale otherwise.
C23_NumericOnlyIfBothNumbers ==
    compared.cells # <<>> =>
        LET a == trim(compared.cells[1])
            b == trim(compared.cells[2])
            natural == IF IsNumber(a) /\ IsNumber(b)
                       THEN Sign(Minus(parseFloat(a), parseFloat(b)))
                       ELSE Sign(localeCompare(a, b))
        IN  /\ compared.asc.ab = natural
            /\ compared.desc.ab = 0 - natural

\* C23 fails: the cells "2a" and "10" were compared as the numbers 2 and 10
\* ("2a" before "10"), while as strings "10" is before "2a".
C23_Witness ==
    /\ compared.cells # <<>>
    /\ compared.cells[1] = <<"2", "a">>
    /\ compared.cells[2] = <<"1", "0">>
    /\ localeCompare(compared.cells[1], compared.cells[2]) > 0
    /\ compared.asc.ab < 0

\* The comparisons r of three different rows are those of a strict total
\* order: antisymmetric, transitive, and no two rows equal.
StrictTotal(r) ==
    /\ r.ab = 0 - r.ba
    /\ (r.ab < 0 /\ r.bc < 0) => r.ac < 0
    /\ (r.ab > 0 /\ r.bc > 0) => r.ac > 0
    /\ r.ab # 0
    /\ r.bc # 0
    /\ r.ac # 0

\* C24: in either direction the comparator is a strict total order over any
\* three different rows, and the descending order is the reverse of the
\* ascending one.
C24_StrictTotalOrder ==
    compared.cells # <<>> =>
        /\ StrictTotal(compared.asc)
        /\ StrictTotal(compared.desc)
        /\ compared.desc.ab = 0 - compared.asc.ab
        /\ compared.desc.bc = 0 - compared.asc.bc
        /\ compared.desc.ac = 0 - compared.asc.ac

\* C24 fails on three rows with pairwise distinct texts, no two of them
\* reported equal: the comparator puts the first before the second and the
\* second before the third, and the third before the first.
C24_Witness ==
    /\ compared.cells = <<<<"2">>, <<"+", "3">>, <<"+", "a">>>>
    /\ compared.asc.ab < 0
    /\ compared.asc.bc < 0
    /\ compared.asc.ac > 0

\* How often x occurs in the sequence q.
Count(q, x) == Cardinality({i \in 1..Len(q) : q[i] = x})

\* p holds the same rows as q, each as often.
SameRows(p, q) ==
    /\ Len(p) = Len(q)
    /\ \A x \in Range(p) \cup Range(q) : Count(p, x) = Count(q, x)

\* C25: every step leaves in the table body the rows it held, each once and
\* with the cells it had: from the table as loaded on, sorting only permutes
\* whole rows.
C25_SortPermutesRows == [][SameRows(rows', rows)]_vars

\* C25 happens: a sort changed the order of three rows, and the body holds
\* the same three rows.
C25_Witness ==
    /\ lastTable.ev = "click"
    /\ Len(rows) = 3
    /\ rows # lastTable.rows
    /\ SameRows(rows, lastTable.rows)

\* C26: when no delayed callback is pending after a sort, the live region
\* reads "Table sorted by <label>, <direction>." for the column and the
\* direction of the sort made last, the direction that column's header
\* carries.
C26_FinalAnnouncement ==
    (timers = <<>> /\ lastTable.ev # "none") =>
        LET dirText == IF sortState.dir = "asc" THEN "ascending" ELSE "descending"
        IN  /\ announcer = "Table sorted by " \o ColumnLabel[lastTable.col + 1]
                               \o ", " \o dirText \o "."
            /\ ariaSort[lastTable.col] = dirText

\* C26 happens: two sorts were clicked before the first was announced; both
\* callbacks have run, the second over the text of the first, and the live
\* region reads the second sort.
C26_Witness ==
    /\ timers = <<>>
    /\ lastTable.ev = "timeout"
    /\ lastTable.announcer # ""
    /\ lastTable.announcer # announcer
    /\ sortState = [col |-> 1, dir |-> "desc"]
    /\ announcer = "Table sorted by Credits, descending."

-----------------------------------------------------------------------------
(* Absent elements: the property *)

\* The elements each controller requires.
Required(controller) ==
    CASE controller = "modal" -> ModalElements
      [] controller = "form"  -> FormElements
      [] controller = "table" -> TableElements
      [] OTHER -> {}

\* C18: when an element a controller requires is absent, no handler of that
\* controller raises an exception and none does any part of what it does.
C18_AbsentNoInit ==
    Required(lastRun.controller) \cap absent # {}
        => (~lastRun.raised /\ lastRun.performed = <<>>)

\* C18 fails: on a page without <header> the open button was clicked, and
\* openModal showed the overlay and then raised.
C18_Witness ==
    /\ absent = {"header"}
    /\ lastRun.handler = "openModal"
    /\ Len(lastRun.performed) = 2
    /\ lastRun.raised

====
